---- MODULE Spec2Model ----
(***************************************************************************)
(* Model of Mockmetheus (correctness/mockmetheus.py): the duration parser, *)
(* the query parser / read-request builder, the write-request builder and  *)
(* the label normalisation of remote_read.                                 *)
(*                                                                         *)
(* Text is modelled as sequences of one-character strings, so that the     *)
(* regular expressions of the source are modelled by what they match.      *)
(* Every call is independent (the class keeps no state between calls): a   *)
(* state of the model is one call, its arguments and its outcome.          *)
(***************************************************************************)
EXTENDS Integers, Sequences, FiniteSets, TLC

VARIABLES op, arg, ret, frame, shape

vars == <<op, arg, ret, frame, shape>>

(***************************************************************************)
(* Characters and strings                                                  *)
(***************************************************************************)
Chars(s) == [i \in 1..Len(s) |-> SubSeq(s, i, i)]

\* The printable ASCII characters from code 32 to 95, and from 97 to 126.
PrintableLow ==
  Chars(" !\"#$%&'()*+,-./0123456789:;<=>?@ABCDEFGHIJKLMNOPQRSTUVWXYZ[\\]^_")

PrintableHigh == Chars("abcdefghijklmnopqrstuvwxyz{|}~")

\* Code point of a character (ASCII).
Ord(c) ==
  CASE c = "\t" -> 9
    [] c = "\n" -> 10
    [] c = "\f" -> 12
    [] c = "\r" -> 13
    [] \E i \in 1..Len(PrintableLow) : PrintableLow[i] = c ->
         31 + (CHOOSE i \in 1..Len(PrintableLow) : PrintableLow[i] = c)
    [] OTHER -> 96 + (CHOOSE i \in 1..Len(PrintableHigh) : PrintableHigh[i] = c)

Digit == {"0", "1", "2", "3", "4", "5", "6", "7", "8", "9"}

Lower == {PrintableHigh[i] : i \in 1..26}

Upper == {PrintableLow[i] : i \in 34..59}

\* what \s matches and what str.strip() removes (ASCII)
Whitespace == {" ", "\t", "\n", "\r", "\f"}

\* [a-zA-Z_:] and [a-zA-Z0-9_:]
MetricStart == Lower \cup Upper \cup {"_", ":"}

MetricRest == MetricStart \cup Digit

\* [a-zA-Z_] and [a-zA-Z0-9_]
LabelStart == Lower \cup Upper \cup {"_"}

LabelRest == LabelStart \cup Digit

\* [0-9hms]
TimeRangeChars == Digit \cup {"h", "m", "s"}

Min(S) == CHOOSE i \in S : \A j \in S : i <= j

\* Position after the longest run of characters of class cls starting at p.
RunEnd(s, p, cls) ==
  Min({q \in p..(Len(s) + 1) : q = Len(s) + 1 \/ s[q] \notin cls})

\* First position >= p holding character c, 0 if none.
Find(s, c, p) ==
  LET hits == {i \in p..Len(s) : s[i] = c}
  IN  IF hits = {} THEN 0 ELSE Min(hits)

\* str.strip()
Strip(s) ==
  LET keep == {i \in 1..Len(s) : s[i] \notin Whitespace}
  IN  IF keep = {} THEN <<>>
      ELSE SubSeq(s, Min(keep), CHOOSE i \in keep : \A j \in keep : j <= i)

\* str.split(c)
RECURSIVE Split(_, _)
Split(s, c) ==
  LET i == Find(s, c, 1)
  IN  IF i = 0 THEN <<s>>
      ELSE <<SubSeq(s, 1, i - 1)>> \o Split(SubSeq(s, i + 1, Len(s)), c)

\* str.split(c, 1)
SplitOnce(s, c) ==
  LET i == Find(s, c, 1)
  IN  IF i = 0 THEN <<s>>
      ELSE <<SubSeq(s, 1, i - 1), SubSeq(s, i + 1, Len(s))>>

DigitVal(c) == Ord(c) - 48

\* int() of a run of decimal digits
RECURSIVE DigitsToInt(_)
DigitsToInt(ds) ==
  IF ds = <<>> THEN 0
  ELSE 10 * DigitsToInt(SubSeq(ds, 1, Len(ds) - 1)) + DigitVal(ds[Len(ds)])

\* Lexicographic order of strings by code point (Python's str comparison).
RECURSIVE StrLess(_, _)
StrLess(a, b) ==
  IF b = <<>> THEN FALSE
  ELSE IF a = <<>> THEN TRUE
  ELSE IF a[1] # b[1] THEN Ord(a[1]) < Ord(b[1])
  ELSE StrLess(Tail(a), Tail(b))

\* list.sort(key=...) on a list of <<key, item>> pairs: a stable sort, as an
\* insertion sort that places each pair after every pair whose key is not
\* greater.
RECURSIVE SortByKey(_)
SortByKey(xs) ==
  IF xs = <<>> THEN <<>>
  ELSE LET done == SortByKey(SubSeq(xs, 1, Len(xs) - 1))
           x == xs[Len(xs)]
           after == {i \in 1..Len(done) : StrLess(x[1], done[i][1])}
           k == IF after = {} THEN Len(done) + 1 ELSE Min(after)
       IN  SubSeq(done, 1, k - 1) \o <<x>> \o SubSeq(done, k, Len(done))

(***************************************************************************)
(* Outcomes of a call                                                      *)
(***************************************************************************)
NoError == "None"

Returns(v) == [raised |-> NoError, value |-> v]

Raises(kind) == [raised |-> kind, value |-> <<>>]

(***************************************************************************)
(* parse_duration                                                          *)
(***************************************************************************)
MsPerHour == 60 * 60 * 1000

MsPerMinute == 60 * 1000

MsPerSecond == 1000

NoGroup(p) == [present |-> FALSE, digits |-> <<>>, next |-> p]

\* (?:(\d+)<unit>)? at position p, the digits ending at q - 1
GroupEndingAt(s, p, unit, q) ==
  IF q > p /\ q <= Len(s) /\ s[q] = unit
  THEN [present |-> TRUE, digits |-> SubSeq(s, p, q - 1), next |-> q + 1]
  ELSE NoGroup(p)

\* (?:(\d+)<unit>)? tried at position p: the group taken, or not there
DurationGroup(s, p, unit) == GroupEndingAt(s, p, unit, RunEnd(s, p, Digit))

\* '$' without re.MULTILINE: the end of the string, or just before a newline
\* that ends the string
AtDollar(s, p) ==
  \/ p = Len(s) + 1
  \/ p = Len(s) /\ s[p] = "\n"

\* The end of one way through the three optional groups.
PathEnd(s, take, h, m, sec) ==
  [matched |-> /\ take[1] = h.present
               /\ take[2] = m.present
               /\ take[3] = sec.present
               /\ AtDollar(s, sec.next),
   hours |-> h.digits, minutes |-> m.digits, seconds |-> sec.digits]

PathSeconds(s, take, h, m) ==
  PathEnd(s, take, h, m, IF take[3] THEN DurationGroup(s, m.next, "s") ELSE NoGroup(m.next))

PathMinutes(s, take, h) ==
  PathSeconds(s, take, h, IF take[2] THEN DurationGroup(s, h.next, "m") ELSE NoGroup(h.next))

\* One way through the three optional groups: take[i] says whether group i
\* is attempted. It matches when the attempted groups are there and the
\* string ends after them.
DurationPath(s, take) ==
  PathMinutes(s, take, IF take[1] THEN DurationGroup(s, 1, "h") ELSE NoGroup(1))

\* The order in which the backtracking matcher tries the optional groups:
\* each one present before absent.
DurationTries ==
  << <<TRUE, TRUE, TRUE>>, <<TRUE, TRUE, FALSE>>, <<TRUE, FALSE, TRUE>>,
     <<TRUE, FALSE, FALSE>>, <<FALSE, TRUE, TRUE>>, <<FALSE, TRUE, FALSE>>,
     <<FALSE, FALSE, TRUE>>, <<FALSE, FALSE, FALSE>> >>

FirstPath(s, ok) ==
  IF ok = {} THEN [matched |-> FALSE, hours |-> <<>>, minutes |-> <<>>, seconds |-> <<>>]
  ELSE DurationPath(s, DurationTries[Min(ok)])

\* re.match(pattern, duration_str)
DurationMatch(s) ==
  FirstPath(s, {i \in 1..Len(DurationTries) : DurationPath(s, DurationTries[i]).matched})

\* total_ms after the three 'if' statements
DurationTotal(match) ==
  (IF match.hours # <<>> THEN DigitsToInt(match.hours) * MsPerHour ELSE 0)
  + (IF match.minutes # <<>> THEN DigitsToInt(match.minutes) * MsPerMinute ELSE 0)
  + (IF match.seconds # <<>> THEN DigitsToInt(match.seconds) * MsPerSecond ELSE 0)

DurationOutcome(matched, total_ms) ==
  IF ~matched THEN Raises("InvalidFormat")
  ELSE IF total_ms = 0 THEN Raises("ZeroDuration")
  ELSE Returns(total_ms)

DurationOf(match) == DurationOutcome(match.matched, DurationTotal(match))

parse_duration(duration_str) == DurationOf(DurationMatch(duration_str))

(***************************************************************************)
(* construct_read_request: the regular expressions                         *)
(***************************************************************************)
\* query_string.split('@', 1): parts[0].strip()
MainQuery(query_string) == Strip(SplitOnce(query_string, "@")[1])

\* parts[1].strip() if there is one; the empty string stands for None too
\* (both are skipped by 'if hints_query:')
HintsQuery(query_string) ==
  LET parts == SplitOnce(query_string, "@")
  IN  IF Len(parts) > 1 THEN Strip(parts[2]) ELSE <<>>

\* re.search(r'^\s*([a-zA-Z_:][a-zA-Z0-9_:]*)', main_query): group 1, or the
\* empty string when there is no match
MetricMatch(main_query) ==
  LET p == RunEnd(main_query, 1, Whitespace)
  IN  IF p <= Len(main_query) /\ main_query[p] \in MetricStart
      THEN SubSeq(main_query, p, RunEnd(main_query, p + 1, MetricRest) - 1)
      ELSE <<>>

\* re.search(r'\{([^}]*)\}', main_query)
LabelMatchersMatch(main_query) ==
  LET open == Find(main_query, "{", 1)
      close == IF open = 0 THEN 0 ELSE Find(main_query, "}", open + 1)
  IN  IF close = 0 THEN [matched |-> FALSE, group |-> <<>>]
      ELSE [matched |-> TRUE, group |-> SubSeq(main_query, open + 1, close - 1)]

\* [lm.strip() for lm in label_matchers_str.split(',') if lm.strip()]
RECURSIVE StripNonEmpty(_)
StripNonEmpty(items) ==
  IF items = <<>> THEN <<>>
  ELSE LET lm == Strip(Head(items))
       IN  (IF lm # <<>> THEN <<lm>> ELSE <<>>) \o StripNonEmpty(Tail(items))

\* The alternation (!=|=~|!~|=), in the order it is tried.
OperatorTokens == <<Chars("!="), Chars("=~"), Chars("!~"), Chars("=")>>

StartsWithAt(s, p, t) ==
  /\ p + Len(t) - 1 <= Len(s)
  /\ SubSeq(s, p, p + Len(t) - 1) = t

\* \s*"([^"]*)" at position p: where the value starts and the closing quote
QuotedAt(s, p) ==
  LET q == RunEnd(s, p, Whitespace)
      close == IF q <= Len(s) /\ s[q] = "\"" THEN Find(s, "\"", q + 1) ELSE 0
  IN  [matched |-> close # 0, from |-> q + 1, close |-> close]

NoMatcher == [matched |-> FALSE, label |-> <<>>, operator |-> <<>>, value |-> <<>>, end |-> 0]

MatcherWith(lm, nameEnd, operator, quoted) ==
  [matched |-> TRUE,
   label |-> SubSeq(lm, 1, nameEnd - 1),
   operator |-> operator,
   value |-> SubSeq(lm, quoted.from, quoted.close - 1),
   end |-> quoted.close + 1]

MatcherWithOperator(lm, nameEnd, p, operator) ==
  MatcherWith(lm, nameEnd, operator, QuotedAt(lm, p + Len(operator)))

\* The first alternative of the operator, at p, after which the quoted
\* value follows.
MatcherFrom(lm, nameEnd, p, ok) ==
  IF ok = {} THEN NoMatcher
  ELSE MatcherWithOperator(lm, nameEnd, p, OperatorTokens[Min(ok)])

MatcherAfterName(lm, nameEnd, p) ==
  MatcherFrom(lm, nameEnd, p,
              {i \in 1..Len(OperatorTokens) :
                 /\ StartsWithAt(lm, p, OperatorTokens[i])
                 /\ QuotedAt(lm, p + Len(OperatorTokens[i])).matched})

\* re.match(r'([a-zA-Z_][a-zA-Z0-9_]*)\s*(!=|=~|!~|=)\s*"([^"]*)"', lm):
\* anchored at the start of lm only; end is the position after the match
LabelMatcherMatch(lm) ==
  IF lm # <<>> /\ lm[1] \in LabelStart
  THEN MatcherAfterName(lm, RunEnd(lm, 2, LabelRest),
                        RunEnd(lm, RunEnd(lm, 2, LabelRest), Whitespace))
  ELSE NoMatcher

\* whether \[([0-9hms]+)\] matches at position i
TimeRangeAt(main_query, i, e) ==
  main_query[i] = "[" /\ e > i + 1 /\ e <= Len(main_query) /\ main_query[e] = "]"

FirstTimeRange(main_query, starts) ==
  IF starts = {} THEN [matched |-> FALSE, group |-> <<>>]
  ELSE [matched |-> TRUE,
        group |-> SubSeq(main_query, Min(starts) + 1,
                         RunEnd(main_query, Min(starts) + 1, TimeRangeChars) - 1)]

\* re.search(r'\[([0-9hms]+)\]', main_query)
TimeRangeMatch(main_query) ==
  FirstTimeRange(main_query,
                 {i \in 1..Len(main_query) :
                    TimeRangeAt(main_query, i, RunEnd(main_query, i + 1, TimeRangeChars))})

NoReadHints == [matched |-> FALSE, group |-> <<>>]

\* ... "([^"]*)"\s*\} : the quoted text and the closing brace
ReadHintsClosed(h, quoted, brace) ==
  IF quoted.matched /\ brace <= Len(h) /\ h[brace] = "}"
  THEN [matched |-> TRUE, group |-> SubSeq(h, quoted.from, quoted.close - 1)]
  ELSE NoReadHints

ReadHintsQuoted(h, quoted) ==
  ReadHintsClosed(h, quoted, IF quoted.matched THEN RunEnd(h, quoted.close + 1, Whitespace) ELSE 0)

\* ... \s*=\s*"([^"]*)" ... with '=' expected at position eq
ReadHintsEquals(h, eq) ==
  IF eq <= Len(h) /\ h[eq] = "=" THEN ReadHintsQuoted(h, QuotedAt(h, eq + 1)) ELSE NoReadHints

\* read_hints ... expected at position p
ReadHintsWord(h, p) ==
  IF StartsWithAt(h, p, Chars("read_hints"))
  THEN ReadHintsEquals(h, RunEnd(h, p + Len(Chars("read_hints")), Whitespace))
  ELSE NoReadHints

\* \{\s*read_hints\s*=\s*"([^"]*)"\s*\} tried at position i
ReadHintsAt(h, i) ==
  IF h[i] = "{" THEN ReadHintsWord(h, RunEnd(h, i + 1, Whitespace)) ELSE NoReadHints

FirstReadHints(hints_query, starts) ==
  IF starts = {} THEN NoReadHints ELSE ReadHintsAt(hints_query, Min(starts))

\* re.search(r'\{\s*read_hints\s*=\s*"([^"]*)"\s*\}', hints_query)
ReadHintsMatch(hints_query) ==
  FirstReadHints(hints_query,
                 {i \in 1..Len(hints_query) : ReadHintsAt(hints_query, i).matched})

(***************************************************************************)
(* construct_read_request: read hints                                      *)
(***************************************************************************)
\* IsIntLiteral with a defect: a signed value is not taken for an integer
\* (as a test by str.isdigit() would do).
IsIntLiteral_Unsigned(val) ==
  /\ val # <<>>
  /\ val[1] \in Digit
  /\ val[Len(val)] \in Digit
  /\ \A i \in 1..Len(val) : val[i] \in Digit \cup {"_"}
  /\ \A i \in 1..(Len(val) - 1) : ~(val[i] = "_" /\ val[i + 1] = "_")

\* whether int(val) succeeds: an optional sign, then decimal digits with
\* single underscores allowed between them (val is already stripped)
IsIntLiteral(val) ==
  LET body == IF val # <<>> /\ val[1] \in {"+", "-"} THEN Tail(val) ELSE val
  IN  /\ body # <<>>
      /\ body[1] \in Digit
      /\ body[Len(body)] \in Digit
      /\ \A i \in 1..Len(body) : body[i] \in Digit \cup {"_"}
      /\ \A i \in 1..(Len(body) - 1) : ~(body[i] = "_" /\ body[i + 1] = "_")

\* int(val), for a val that int() accepts
IntValue(val) ==
  LET IsDigit(c) == c \in Digit
      signed == val[1] \in {"+", "-"}
      body == IF signed THEN Tail(val) ELSE val
      n == DigitsToInt(SelectSeq(body, IsDigit))
  IN  IF val[1] = "-" THEN 0 - n ELSE n

\* str.lower()
ToLower(s) ==
  [i \in 1..Len(s) |-> IF s[i] \in Upper THEN PrintableHigh[Ord(s[i]) - 64] ELSE s[i]]

\* The ReadHints message as query.hints starts out: every field at its default.
EmptyHints ==
  [start_ms |-> 0, end_ms |-> 0, step_ms |-> 0, range_ms |-> 0,
   func |-> <<>>, by |-> FALSE, grouping |-> <<>>]

IntegerHintKeys == {Chars("start"), Chars("end"), Chars("step"), Chars("range")}

\* ApplyHint with a defect: the end hint is stored in the hints but does not
\* replace end_timestamp_ms.
ApplyHint_EndNotApplied(st, key, val) ==
  CASE key = Chars("start") ->
         [st EXCEPT !.hints.start_ms = IntValue(val), !.start_timestamp_ms = IntValue(val)]
    [] key = Chars("end") -> [st EXCEPT !.hints.end_ms = IntValue(val)]
    [] key = Chars("step") -> [st EXCEPT !.hints.step_ms = IntValue(val)]
    [] key = Chars("range") -> [st EXCEPT !.hints.range_ms = IntValue(val)]
    [] key = Chars("func") -> [st EXCEPT !.hints.func = val]
    [] key = Chars("by") -> [st EXCEPT !.hints.by = (ToLower(val) = Chars("true"))]
    [] key = Chars("grouping") ->
         [st EXCEPT !.hints.grouping = @ \o StripNonEmpty(Split(val, "|"))]
    [] OTHER -> st

\* The if/elif chain on key: what one key=value pair does to the hints and
\* to the two timestamps.
ApplyHint(st, key, val) ==
  CASE key = Chars("start") ->
         [st EXCEPT !.hints.start_ms = IntValue(val), !.start_timestamp_ms = IntValue(val)]
    [] key = Chars("end") ->
         [st EXCEPT !.hints.end_ms = IntValue(val), !.end_timestamp_ms = IntValue(val)]
    [] key = Chars("step") -> [st EXCEPT !.hints.step_ms = IntValue(val)]
    [] key = Chars("range") -> [st EXCEPT !.hints.range_ms = IntValue(val)]
    [] key = Chars("func") -> [st EXCEPT !.hints.func = val]
    [] key = Chars("by") -> [st EXCEPT !.hints.by = (ToLower(val) = Chars("true"))]
    [] key = Chars("grouping") ->
         [st EXCEPT !.hints.grouping = @ \o StripNonEmpty(Split(val, "|"))]
    [] OTHER -> st

\* for kv in read_hints_str.split(','): ... , stopping at the first raise
RECURSIVE ReadHintsLoop(_, _)
ReadHintsLoop(kvs, st) ==
  IF kvs = <<>> THEN st
  ELSE LET kv == Strip(Head(kvs))
       IN  IF Find(kv, "=", 1) = 0 THEN ReadHintsLoop(Tail(kvs), st)
           ELSE LET pair == SplitOnce(kv, "=")
                    key == Strip(pair[1])
                    val == Strip(pair[2])
                IN  IF key \in IntegerHintKeys /\ ~IsIntLiteral(val)
                    THEN [st EXCEPT !.raised = "InvalidHintValue"]
                    ELSE ReadHintsLoop(Tail(kvs), ApplyHint(st, key, val))

HintsFrom(hints_query, read_hints_match, st0) ==
  IF hints_query # <<>> /\ read_hints_match.matched
  THEN ReadHintsLoop(Split(read_hints_match.group, ","), st0)
  ELSE st0

\* The block 'if hints_query: ...' applied to the timestamps computed so far.
ParseReadHints(hints_query, start_timestamp_ms, end_timestamp_ms) ==
  HintsFrom(hints_query, ReadHintsMatch(hints_query),
            [raised |-> NoError, hints |-> EmptyHints,
             start_timestamp_ms |-> start_timestamp_ms,
             end_timestamp_ms |-> end_timestamp_ms])

(***************************************************************************)
(* construct_read_request                                                  *)
(***************************************************************************)
DefaultTimeRangeMs == 3600000

operator_mapping ==
  (Chars("=") :> "EQ") @@ (Chars("!=") :> "NEQ") @@ (Chars("=~") :> "RE") @@ (Chars("!~") :> "NRE")

\* label_matchers_list.append((label, operator, value))
MatcherTuple(lm_match) == <<lm_match.label, lm_match.operator, lm_match.value>>

\* for lm in label_matchers: the (label, operator, value) of each entry
ParseLabelMatchers(label_matchers) ==
  [i \in 1..Len(label_matchers) |-> MatcherTuple(LabelMatcherMatch(label_matchers[i]))]

\* The items of a sorted list of <<key, item>> pairs.
Items(sorted) == [i \in 1..Len(sorted) |-> sorted[i][2]]

\* SortLabelMatchers with a defect: the list is left in the order written.
SortLabelMatchers_Unsorted(label_matchers_list) == label_matchers_list

\* SortLabelMatchers with a defect: the label name is the sort key.
SortLabelMatchers_ByName(label_matchers_list) ==
  Items(SortByKey([i \in 1..Len(label_matchers_list) |->
                     <<label_matchers_list[i][1], label_matchers_list[i]>>]))

\* label_matchers_list.sort(key=lambda x: x[2])
SortLabelMatchers(label_matchers_list) ==
  Items(SortByKey([i \in 1..Len(label_matchers_list) |->
                     <<label_matchers_list[i][3], label_matchers_list[i]>>]))

\* matcher = query.matchers.add() for one sorted entry
LabelMatcherOf(entry) ==
  [type |-> operator_mapping[entry[2]], name |-> entry[1], value |-> entry[3]]

\* metric_matcher = query.matchers.add()
MetricMatcherOf(metric_name) ==
  [type |-> "EQ", name |-> Chars("__name__"), value |-> metric_name]

\* AssembleRequest with a defect: the __name__ matcher is added after the
\* label matchers instead of before them.
AssembleRequest_NameLast(metric_name, sorted, hinted) ==
  IF \E i \in 1..Len(sorted) : sorted[i][2] \notin DOMAIN operator_mapping
  THEN Raises("UnsupportedOperator")
  ELSE Returns([queries |->
                  <<[start_timestamp_ms |-> hinted.start_timestamp_ms,
                     end_timestamp_ms |-> hinted.end_timestamp_ms,
                     hints |-> hinted.hints,
                     matchers |-> [i \in 1..Len(sorted) |-> LabelMatcherOf(sorted[i])]
                                  \o <<MetricMatcherOf(metric_name)>>]>>,
                accepted_response_types |-> <<"SAMPLES">>])

\* The request assembled at the end: the __name__ matcher, then one matcher
\* per sorted entry.
AssembleRequest(metric_name, sorted, hinted) ==
  IF \E i \in 1..Len(sorted) : sorted[i][2] \notin DOMAIN operator_mapping
  THEN Raises("UnsupportedOperator")
  ELSE Returns([queries |->
                  <<[start_timestamp_ms |-> hinted.start_timestamp_ms,
                     end_timestamp_ms |-> hinted.end_timestamp_ms,
                     hints |-> hinted.hints,
                     matchers |-> <<MetricMatcherOf(metric_name)>>
                                  \o [i \in 1..Len(sorted) |-> LabelMatcherOf(sorted[i])]]>>,
                accepted_response_types |-> <<"SAMPLES">>])

BuildReadRequest(metric_name, label_matchers_list, hinted) ==
  AssembleRequest(metric_name, SortLabelMatchers(label_matchers_list), hinted)

\* What a call leaves: its outcome, and the local time_range_ms when the
\* function returns or raises (-1: not assigned yet).
ReadCall(outcome, time_range_ms) == [outcome |-> outcome, time_range_ms |-> time_range_ms]

\* The hints applied: the raise inside the loop, or on to the matchers.
ReadBuild(metric_name, label_matchers_list, time_range_ms, hinted) ==
  IF hinted.raised # NoError THEN ReadCall(Raises(hinted.raised), time_range_ms)
  ELSE ReadCall(BuildReadRequest(metric_name, label_matchers_list, hinted), time_range_ms)

\* From 'query = read_request.queries.add()' to the return.
ReadHintsAndBuild(metric_name, label_matchers_list, time_range_ms, hints_query, current_time_ms) ==
  ReadBuild(metric_name, label_matchers_list, time_range_ms,
            ParseReadHints(hints_query,
                           IF time_range_ms > 0 THEN current_time_ms - time_range_ms
                           ELSE current_time_ms - DefaultTimeRangeMs,
                           current_time_ms))

\* time_range_ms as the if/else on time_range_match leaves it, or the raise.
ReadDuration(metric_name, label_matchers_list, duration, hints_query, current_time_ms) ==
  IF duration.raised # NoError THEN ReadCall(Raises("InvalidTimeRange"), -1)
  ELSE ReadHintsAndBuild(metric_name, label_matchers_list, duration.value,
                         hints_query, current_time_ms)

\* 'Extract time range from main_query', and on from there.
ReadTimeRange(metric_name, label_matchers_list, time_range_match, hints_query, current_time_ms) ==
  ReadDuration(metric_name, label_matchers_list,
               IF time_range_match.matched THEN parse_duration(time_range_match.group)
               ELSE Returns(DefaultTimeRangeMs),
               hints_query, current_time_ms)

\* The body of 'if label_matchers_str:' and on from there.
ReadEntries(metric_name, label_matchers_str, label_matchers, main_query, hints_query, current_time_ms) ==
  IF label_matchers_str # <<>> /\ label_matchers = <<>>
  THEN ReadCall(Raises("EmptyMatcherBlock"), -1)
  ELSE IF /\ label_matchers_str # <<>>
          /\ \E i \in 1..Len(label_matchers) : ~LabelMatcherMatch(label_matchers[i]).matched
  THEN ReadCall(Raises("InvalidMatcher"), -1)
  ELSE ReadTimeRange(metric_name,
                     IF label_matchers_str # <<>> THEN ParseLabelMatchers(label_matchers)
                     ELSE <<>>,
                     TimeRangeMatch(main_query), hints_query, current_time_ms)

\* 'Extract label matchers from main_query', and on from there.
ReadLabelMatchers(metric_name, label_matchers_match, main_query, hints_query, current_time_ms) ==
  ReadEntries(metric_name,
              IF label_matchers_match.matched THEN label_matchers_match.group ELSE <<>>,
              IF label_matchers_match.matched
              THEN StripNonEmpty(Split(label_matchers_match.group, ","))
              ELSE <<>>,
              main_query, hints_query, current_time_ms)

\* The metric name, and on from there.
ReadName(metric_name, main_query, hints_query, current_time_ms) ==
  IF metric_name = <<>> THEN ReadCall(Raises("MissingMetricName"), -1)
  ELSE ReadLabelMatchers(metric_name, LabelMatchersMatch(main_query),
                         main_query, hints_query, current_time_ms)

ReadMetric(main_query, hints_query, current_time_ms) ==
  ReadName(MetricMatch(main_query), main_query, hints_query, current_time_ms)

\* The whole function.
construct_read_request(query_string, current_time_ms) ==
  ReadMetric(MainQuery(query_string), HintsQuery(query_string), current_time_ms)

(***************************************************************************)
(* construct_write_request                                                 *)
(***************************************************************************)
\* One pass of 'for timeseries_data in data': labels is the dict's items()
\* in iteration order, samples the list of (value, timestamp) tuples.
TimeSeriesOf(timeseries_data) ==
  [labels |-> [i \in 1..Len(timeseries_data.labels) |->
                 [name |-> timeseries_data.labels[i][1],
                  value |-> timeseries_data.labels[i][2]]],
   samples |-> [i \in 1..Len(timeseries_data.samples) |->
                  [value |-> timeseries_data.samples[i][1],
                   timestamp |-> timeseries_data.samples[i][2]]]]

\* construct_write_request with a defect: records without samples are
\* skipped.
construct_write_request_SkipsEmpty(data) ==
  LET kept == SelectSeq(data, LAMBDA timeseries_data : timeseries_data.samples # <<>>)
  IN  [timeseries |-> [i \in 1..Len(kept) |-> TimeSeriesOf(kept[i])]]

construct_write_request(data) ==
  [timeseries |-> [i \in 1..Len(data) |-> TimeSeriesOf(data[i])]]

(***************************************************************************)
(* remote_read: the normalisation of the decoded response                  *)
(***************************************************************************)
\* SortLabels with a defect: the labels are left in the order received.
SortLabels_Unsorted(labels) == labels

\* timeseries['labels'].sort(key=lambda label: label['name'])
SortLabels(labels) ==
  Items(SortByKey([i \in 1..Len(labels) |-> <<Chars(labels[i].name), labels[i]>>]))

\* The second try block of remote_read on a decoded response. MessageToDict
\* leaves out a repeated field that is empty, so a series without labels has
\* no 'labels' key and timeseries['labels'] raises KeyError; 'results' and
\* 'timeseries' are read with .get(..., []).
NormalizeResponse(response) ==
  IF \E r \in 1..Len(response.results) :
       \E t \in 1..Len(response.results[r].timeseries) :
         response.results[r].timeseries[t].labels = <<>>
  THEN Raises("KeyError")
  ELSE Returns(
    [results |->
       [r \in 1..Len(response.results) |->
          [timeseries |->
             [t \in 1..Len(response.results[r].timeseries) |->
                [labels |-> SortLabels(response.results[r].timeseries[t].labels),
                 samples |-> response.results[r].timeseries[t].samples]]]]])

ReadResponse(read_request, response) ==
  IF read_request.raised # NoError THEN read_request
  ELSE NormalizeResponse(response)

\* remote_read(query) given what the connector answers: a failure to build
\* the request is raised before anything is sent.
remote_read(query, current_time_ms, response) ==
  ReadResponse(construct_read_request(query, current_time_ms).outcome, response)

(***************************************************************************)
(* The inputs the calls are made with                                      *)
(***************************************************************************)
\* All sequences over S of length at most n.
RECURSIVE SeqsUpTo(_, _)
SeqsUpTo(S, n) ==
  IF n = 0 THEN {<<>>}
  ELSE LET shorter == SeqsUpTo(S, n - 1)
       IN  shorter \cup {Append(q, x) : q \in shorter, x \in S}

RECURSIVE Concat(_)
Concat(ss) == IF ss = <<>> THEN <<>> ELSE Head(ss) \o Concat(Tail(ss))

\* sep.join(ss)
RECURSIVE Join(_, _)
Join(ss, sep) ==
  IF ss = <<>> THEN <<>>
  ELSE IF Len(ss) = 1 THEN ss[1]
  ELSE ss[1] \o sep \o Join(Tail(ss), sep)

MaxDurationTokens == 3

DurationTokens ==
  {Chars("0h"), Chars("2h"), Chars("0m"), Chars("3m"), Chars("0s"), Chars("5s"),
   Chars("0"), Chars("h"), Chars("s"), Chars("x"), Chars("\n")}

DurationInputs == {Concat(ts) : ts \in SeqsUpTo(DurationTokens, MaxDurationTokens)}

MaxMatchers == 2

MaxHints == 2

MaxLabels == 3

Clocks == {2000000000, 2000003000}

MetricPieces == {Chars("m"), Chars("a_:1"), Chars("1m"), <<>>}

EntryPieces ==
  {Chars("a=\"1\""), Chars("b=\"1\""), Chars("b!~\"2..\""), Chars("c =~ \"0\""),
   Chars("a=\"1\"x"), Chars("a=1"), Chars("a==\"1\""), Chars(" "), <<>>}

RangePieces ==
  {<<>>, Chars("[5s]"), Chars("[1h2m]"), Chars("[0s]"), Chars("[5sm]"),
   Chars("[]"), Chars("[5d]"), Chars("[x][2m]")}

\* key and value of the pairs written in a read_hints block; a pair with key
\* "" is written without '='
HintPieces ==
  {<<"start", "100">>, <<"end", "200">>, <<" end ", "-5">>, <<"start", "x">>,
   <<"step", "1_0">>, <<"range", "">>, <<"func", "rate">>, <<"by", "True">>,
   <<"grouping", "a| b">>, <<"Start", "7">>, <<"", "nokey">>}

HintText(pair) ==
  IF pair[1] = "" THEN Chars(pair[2])
  ELSE Chars(pair[1]) \o <<"=">> \o Chars(pair[2])

\* How the text after the range block is written.
HintForms == {"none", "empty", "other", "block", "spaced"}

HintsText(form, pairs) ==
  LET body == Join([i \in 1..Len(pairs) |-> HintText(pairs[i])], <<",">>)
  IN  CASE form = "none" -> <<>>
        [] form = "empty" -> Chars(" @ ")
        [] form = "other" -> Chars(" @ {hints=\"start=1\"}")
        [] form = "block" -> Chars(" @ {read_hints=\"") \o body \o Chars("\"}")
        [] form = "spaced" -> Chars("@{ read_hints = \"") \o body \o Chars("\" } ")

\* The query a shape writes: metric, matcher block, range block, hints.
QueryOf(sh) ==
  sh.metric
  \o (IF sh.block THEN <<"{">> \o Join(sh.entries, <<",">>) \o <<"}">> ELSE <<>>)
  \o sh.range
  \o HintsText(sh.form, sh.pairs)

Shape(metric, block, entries, range, form, pairs) ==
  [metric |-> metric, block |-> block, entries |-> entries, range |-> range,
   form |-> form, pairs |-> pairs]

NoShape == Shape(<<>>, FALSE, <<>>, <<>>, "none", <<>>)

CoreEntries == {<<>>, <<Chars("b=\"2\""), Chars("a=\"1\"")>>}

CoreRanges == {<<>>, Chars("[5s]")}

\* <<form, pairs>>: no hints, or a start and an end hint
CoreHints == {<<"none", <<>>>>, <<"block", <<<<"start", "100">>, <<"end", "200">>>>>>}

\* The queries tried: every metric and range with a few blocks and hints
\* texts (at every clock reading), every block with a few ranges and hints,
\* every hints block with a few matcher blocks and ranges.
MetricAndRangeShapes ==
  {Shape(m, es # <<>>, es, r, f, <<>>) :
     m \in MetricPieces, es \in CoreEntries, r \in RangePieces,
     f \in {"none", "empty", "other"}}

BlockShapes ==
  {Shape(Chars("m"), TRUE, es, r, h[1], h[2]) :
     es \in SeqsUpTo(EntryPieces, MaxMatchers), r \in CoreRanges, h \in CoreHints}

HintShapes ==
  {Shape(Chars("m"), es # <<>>, es, r, f, ps) :
     es \in CoreEntries, r \in CoreRanges,
     f \in {"block", "spaced"}, ps \in SeqsUpTo(HintPieces, MaxHints)}

\* entries whose value holds an '@', and one with an operator that is not one
\* of the four
ValuePieces == {Chars("a=\"x@y\""), Chars("b=\"1\""), Chars("a<\"1\"")}

\* every block of such entries, with a few ranges and hints
ValueShapes ==
  {Shape(Chars("m"), TRUE, es, r, h[1], h[2]) :
     es \in SeqsUpTo(ValuePieces, MaxMatchers) \ {<<>>}, r \in CoreRanges, h \in CoreHints}

ReadInputs ==
  {<<sh, t>> : sh \in MetricAndRangeShapes, t \in Clocks}
  \cup {<<sh, Min(Clocks)>> : sh \in BlockShapes \cup HintShapes \cup ValueShapes}

LabelPool == {<<"a", "1">>, <<"a", "2">>, <<"b", "1">>, <<"__name__", "m">>}

SamplePool == {<<>>, <<<<220, 1>>>>, <<<<300, 2>>, <<400, 1>>>>, <<<<1, 1>>, <<1, 1>>>>}

\* dicts of labels, in iteration order
LabelDicts ==
  {<<>>, <<<<"__name__", "m">>>>, <<<<"__name__", "m">>, <<"instance", "i">>>>,
   <<<<"instance", "i">>, <<"__name__", "m">>>>}

Records == [labels : LabelDicts, samples : SamplePool]

MaxRecords == 2

WriteInputs == SeqsUpTo(Records, MaxRecords)

SeriesOf(labels) ==
  [labels |-> [i \in 1..Len(labels) |-> [name |-> labels[i][1], value |-> labels[i][2]]],
   samples |-> <<[value |-> 220, timestamp |-> 1]>>]

OtherSeries == SeriesOf(<<<<"job", "j">>, <<"__name__", "n">>>>)

\* Decoded responses: no result, or a series with any labels alone, after
\* another series, or in the first of two results.
ResponseInputs ==
  {[results |-> <<>>]}
  \cup {[results |-> <<[timeseries |-> <<SeriesOf(ls)>>]>>] :
          ls \in SeqsUpTo(LabelPool, MaxLabels)}
  \cup {[results |-> <<[timeseries |-> <<OtherSeries, SeriesOf(ls)>>]>>] :
          ls \in SeqsUpTo(LabelPool, MaxLabels)}
  \cup {[results |-> <<[timeseries |-> <<SeriesOf(ls)>>], [timeseries |-> <<>>]>>] :
          ls \in SeqsUpTo(LabelPool, MaxLabels)}

RemoteReadQueries == {Chars("m{a=\"1\"}[5s]"), Chars("m{}[0s]")}

(***************************************************************************)
(* The calls                                                               *)
(***************************************************************************)
\* A Mockmetheus keeps nothing between calls: a call is made on the idle
\* client, and its arguments and outcome are dropped before the next one.
Idle ==
  /\ op = "idle"
  /\ arg = <<>>
  /\ ret = Returns(<<>>)
  /\ frame = [time_range_ms |-> -1]
  /\ shape = NoShape

Init == Idle

ParseDuration ==
  /\ op = "idle"
  /\ \E duration_str \in DurationInputs :
       /\ op' = "parse_duration"
       /\ arg' = duration_str
       /\ ret' = parse_duration(duration_str)
       /\ frame' = [time_range_ms |-> -1]
       /\ shape' = NoShape

\* The call construct_read_request(query_string) made at the clock reading
\* current_time_ms, and what it leaves.
ReadCalled(sh, query_string, current_time_ms, call) ==
  /\ op' = "construct_read_request"
  /\ arg' = [query_string |-> query_string, current_time_ms |-> current_time_ms]
  /\ ret' = call.outcome
  /\ frame' = [time_range_ms |-> call.time_range_ms]
  /\ shape' = sh

ReadOf(sh, query_string, current_time_ms) ==
  ReadCalled(sh, query_string, current_time_ms,
             construct_read_request(query_string, current_time_ms))

ConstructReadRequest ==
  /\ op = "idle"
  /\ \E input \in ReadInputs : ReadOf(input[1], QueryOf(input[1]), input[2])

ConstructWriteRequest ==
  /\ op = "idle"
  /\ \E data \in WriteInputs :
       /\ op' = "construct_write_request"
       /\ arg' = data
       /\ ret' = Returns(construct_write_request(data))
       /\ frame' = [time_range_ms |-> -1]
       /\ shape' = NoShape

RemoteRead ==
  /\ op = "idle"
  /\ \E query \in RemoteReadQueries, response \in ResponseInputs :
       /\ op' = "remote_read"
       /\ arg' = [query |-> query, response |-> response]
       /\ ret' = remote_read(query, Min(Clocks), response)
       /\ frame' = [time_range_ms |-> -1]
       /\ shape' = NoShape

\* The caller is done with the outcome.
Discard ==
  /\ op # "idle"
  /\ op' = "idle"
  /\ arg' = <<>>
  /\ ret' = Returns(<<>>)
  /\ frame' = [time_range_ms |-> -1]
  /\ shape' = NoShape

Next ==
  \/ ParseDuration
  \/ ConstructReadRequest
  \/ ConstructWriteRequest
  \/ RemoteRead
  \/ Discard

Spec == Init /\ [][Next]_vars

(***************************************************************************)
(* Reference notions the properties are stated with. They are written from *)
(* the grammar the properties speak of, not from the operators above.      *)
(***************************************************************************)
IsRead == op = "construct_read_request"

Succeeded == ret.raised = NoError

\* The errors raised before the time range is looked at.
MatcherStageErrors == {"MissingMetricName", "EmptyMatcherBlock", "InvalidMatcher"}

\* The errors raised before the hints are looked at.
RangeStageErrors == MatcherStageErrors \cup {"InvalidTimeRange"}

\* t is digits followed by the unit, or empty
IsDurationPart(t, unit) ==
  \/ t = <<>>
  \/ /\ Len(t) >= 2
     /\ t[Len(t)] = unit
     /\ \A k \in 1..(Len(t) - 1) : t[k] \in Digit

PartValue(t) == IF t = <<>> THEN 0 ELSE DigitsToInt(SubSeq(t, 1, Len(t) - 1))

\* The ways to cut s into an hours, a minutes and a seconds part.
DurationCuts(s) ==
  {c \in (0..Len(s)) \X (0..Len(s)) :
     /\ c[1] <= c[2]
     /\ IsDurationPart(SubSeq(s, 1, c[1]), "h")
     /\ IsDurationPart(SubSeq(s, c[1] + 1, c[2]), "m")
     /\ IsDurationPart(SubSeq(s, c[2] + 1, Len(s)), "s")}

\* The reference duration function: the sum for a string of the grammar,
\* ZeroDuration when that sum is 0, InvalidFormat for any other string.
ReferenceDuration(s) ==
  IF DurationCuts(s) = {} THEN Raises("InvalidFormat")
  ELSE LET c == CHOOSE c \in DurationCuts(s) : TRUE
           total == PartValue(SubSeq(s, 1, c[1])) * 3600000
                    + PartValue(SubSeq(s, c[1] + 1, c[2])) * 60000
                    + PartValue(SubSeq(s, c[2] + 1, Len(s))) * 1000
       IN  IF total = 0 THEN Raises("ZeroDuration") ELSE Returns(total)

SameOutcome(a, b) ==
  /\ a.raised = b.raised
  /\ a.raised = NoError => a.value = b.value

\* v is the longest leading identifier of the query (leading blanks apart):
\* a prefix [a-zA-Z_:][a-zA-Z0-9_:]* that the next character does not extend.
IsLeadingIdentifier(v, q) ==
  LET lead == {i \in 1..Len(q) : q[i] \notin Whitespace}
      from == IF lead = {} THEN Len(q) + 1 ELSE Min(lead)
      n == from + Len(v) - 1
  IN  /\ v # <<>>
      /\ n <= Len(q)
      /\ SubSeq(q, from, n) = v
      /\ v[1] \in MetricStart
      /\ \A i \in 1..Len(v) : v[i] \in MetricRest
      /\ n = Len(q) \/ q[n + 1] \notin MetricRest

HasMetricName(q) == \E n \in 1..Len(q) : \E i \in 1..n : IsLeadingIdentifier(SubSeq(q, i, n), q)

\* Every entry written in the block is blank.
AllBlank(entries) == \A i \in 1..Len(entries) : \A k \in 1..Len(entries[i]) : entries[i][k] \in Whitespace

\* entry is exactly identifier, operator, double-quoted value
IsExactMatcher(entry) ==
  \E a \in 1..Len(entry), b \in 1..Len(entry), k \in 1..2 :
    /\ a < b /\ b + k < Len(entry)
    /\ entry[1] \in LabelStart
    /\ \A i \in 1..a : entry[i] \in LabelRest
    /\ \A i \in (a + 1)..(b - 1) : entry[i] \in Whitespace
    /\ SubSeq(entry, b, b + k - 1) \in {Chars("!="), Chars("=~"), Chars("!~"), Chars("=")}
    /\ \E c \in (b + k)..(Len(entry) - 1) :
         /\ \A i \in (b + k)..(c - 1) : entry[i] \in Whitespace
         /\ entry[c] = "\""
         /\ entry[Len(entry)] = "\""
         /\ \A i \in (c + 1)..(Len(entry) - 1) : entry[i] # "\""

NonBlank(entries) == SelectSeq([i \in 1..Len(entries) |-> Strip(entries[i])], LAMBDA e : e # <<>>)

(***************************************************************************)
(* C1. A matcher block without a non-empty entry                           *)
(***************************************************************************)
\* C1: every query with a metric name whose '{...}' block has no non-empty
\* entry after splitting on ',' and trimming (a bare '{}' included) fails
\* with EmptyMatcherBlock.
C1_EmptyBlockRejected ==
  (IsRead /\ HasMetricName(arg.query_string) /\ shape.block /\ AllBlank(shape.entries))
    => ret.raised = "EmptyMatcherBlock"

(***************************************************************************)
(* C2. The form of a matcher entry                                         *)
(***************************************************************************)
\* C2: when the block has a non-empty entry that is not exactly identifier,
\* operator, double-quoted value (nothing before or after), the parse fails
\* with InvalidMatcher and no request is returned.
C2_InexactEntryRejected ==
  (/\ IsRead
   /\ HasMetricName(arg.query_string)
   /\ shape.block
   /\ \E i \in 1..Len(NonBlank(shape.entries)) : ~IsExactMatcher(NonBlank(shape.entries)[i]))
    => ret.raised = "InvalidMatcher"

(***************************************************************************)
(* C3. The range block                                                     *)
(***************************************************************************)
HasBracketBlock(r) == Find(r, "[", 1) # 0 /\ Find(r, "]", Find(r, "[", 1) + 1) # 0

\* the content of the first '[...]' block
BracketContent(r) == SubSeq(r, Find(r, "[", 1) + 1, Find(r, "]", Find(r, "[", 1) + 1) - 1)

\* C3: once the metric name and the matchers are accepted, the content of
\* the first '[...]' block goes to the duration parser, whose failure is
\* raised as InvalidTimeRange and whose result is the time range; the
\* default 3600000 is used only when there is no '[...]' block at all.
C3_AnyRangeBlockIsParsed ==
  (IsRead /\ ret.raised \notin MatcherStageErrors)
    => IF HasBracketBlock(shape.range)
       THEN LET d == ReferenceDuration(BracketContent(shape.range))
            IN  IF d.raised # NoError THEN ret.raised = "InvalidTimeRange"
                ELSE ret.raised # "InvalidTimeRange" /\ frame.time_range_ms = d.value
       ELSE ret.raised # "InvalidTimeRange" /\ frame.time_range_ms = 3600000

(***************************************************************************)
(* C4. parse_duration against the reference function                       *)
(***************************************************************************)
\* C4: on every input string parse_duration gives what the reference
\* duration function gives: the sum, ZeroDuration or InvalidFormat.
C4_AgreesWithReference ==
  op = "parse_duration" => SameOutcome(ret, ReferenceDuration(arg))

(***************************************************************************)
(* C5. The time window of the request                                      *)
(***************************************************************************)
\* The integers the hint values of the inputs stand for.
HintIntegers == ("100" :> 100) @@ ("200" :> 200) @@ ("-5" :> 0 - 5) @@ ("1_0" :> 10) @@ ("7" :> 7)

HintsGiven(sh) == sh.form \in {"block", "spaced"}

\* The positions of the pairs written key=value with this key.
HintsWithKey(sh, key) ==
  {i \in 1..Len(sh.pairs) : sh.pairs[i][1] # "" /\ Strip(Chars(sh.pairs[i][1])) = Chars(key)}

HasHint(sh, key) == HintsGiven(sh) /\ HintsWithKey(sh, key) # {}

\* The value of the last pair with this key.
HintValue(sh, key) ==
  HintIntegers[sh.pairs[CHOOSE i \in HintsWithKey(sh, key) : \A j \in HintsWithKey(sh, key) : j <= i][2]]

\* C5: in a returned request the end is the clock reading and the start is
\* the reading minus the (positive) time range, except that a start hint
\* gives the start and hints.start_ms, and an end hint the end and
\* hints.end_ms, each whatever the other and the range are.
C5_TimeWindow ==
  (IsRead /\ Succeeded)
    => LET q == ret.value.queries[1]
       IN  /\ frame.time_range_ms > 0
           /\ IF HasHint(shape, "start")
              THEN /\ q.start_timestamp_ms = HintValue(shape, "start")
                   /\ q.hints.start_ms = HintValue(shape, "start")
              ELSE q.start_timestamp_ms = arg.current_time_ms - frame.time_range_ms
           /\ IF HasHint(shape, "end")
              THEN /\ q.end_timestamp_ms = HintValue(shape, "end")
                   /\ q.hints.end_ms = HintValue(shape, "end")
              ELSE q.end_timestamp_ms = arg.current_time_ms

\* A request returned for a query with a range block and a start hint but
\* no end hint.
C5_Witness ==
  /\ IsRead /\ Succeeded
  /\ shape.range = Chars("[5s]")
  /\ HasHint(shape, "start") /\ ~HasHint(shape, "end")
  /\ ret.value.queries[1].end_timestamp_ms - ret.value.queries[1].start_timestamp_ms # 5000

(***************************************************************************)
(* C6. The __name__ matcher                                                *)
(***************************************************************************)
\* C6: a returned request has exactly one query, and its first matcher is
\* __name__ EQ the longest leading identifier of the query, whatever the
\* number of label matchers.
C6_NameMatcherFirst ==
  (IsRead /\ Succeeded)
    => /\ Len(ret.value.queries) = 1
       /\ LET matchers == ret.value.queries[1].matchers
          IN  /\ Len(matchers) >= 1
              /\ matchers[1].type = "EQ"
              /\ matchers[1].name = Chars("__name__")
              /\ IsLeadingIdentifier(matchers[1].value, arg.query_string)

\* A request with two label matchers after the __name__ matcher of a metric
\* name that uses ':' and a digit.
C6_Witness ==
  /\ IsRead /\ Succeeded
  /\ Len(ret.value.queries[1].matchers) = 3
  /\ ret.value.queries[1].matchers[1].value = Chars("a_:1")

(***************************************************************************)
(* C7. construct_write_request                                             *)
(***************************************************************************)
\* C7: the write request has one series per record in the same order, each
\* with exactly the record's labels and samples in their order; nothing is
\* filtered, deduplicated or reordered, empty labels and samples included.
C7_WriteKeepsEverything ==
  op = "construct_write_request"
    => LET timeseries == ret.value.timeseries
       IN  /\ Len(timeseries) = Len(arg)
           /\ \A i \in 1..Len(arg) :
                /\ Len(timeseries[i].labels) = Len(arg[i].labels)
                /\ Len(timeseries[i].samples) = Len(arg[i].samples)
                /\ \A j \in 1..Len(arg[i].labels) :
                     /\ timeseries[i].labels[j].name = arg[i].labels[j][1]
                     /\ timeseries[i].labels[j].value = arg[i].labels[j][2]
                /\ \A j \in 1..Len(arg[i].samples) :
                     /\ timeseries[i].samples[j].value = arg[i].samples[j][1]
                     /\ timeseries[i].samples[j].timestamp = arg[i].samples[j][2]

\* Two records: one without labels and with a repeated sample, one with
\* labels not in name order and without samples.
C7_Witness ==
  /\ op = "construct_write_request"
  /\ Len(arg) = 2
  /\ arg[1].labels = <<>> /\ arg[1].samples = <<<<1, 1>>, <<1, 1>>>>
  /\ arg[2].labels = <<<<"instance", "i">>, <<"__name__", "m">>>> /\ arg[2].samples = <<>>
  /\ Len(ret.value.timeseries) = 2

(***************************************************************************)
(* C8. The normalisation and the order of the labels received              *)
(***************************************************************************)
LabelOrders(n) == {p \in [1..n -> 1..n] : \A i, j \in 1..n : p[i] = p[j] => i = j}

\* The response with the labels of series t of result r in the order p.
PermutedResponse(response, r, t, p) ==
  [response EXCEPT !.results[r].timeseries[t].labels = [i \in 1..Len(@) |-> @[p[i]]]]

SeriesPositions(response) ==
  {rt \in (1..Len(response.results)) \X (1..2) : rt[2] <= Len(response.results[rt[1]].timeseries)}

DistinctNames(labels) ==
  \A i, j \in 1..Len(labels) : labels[i].name = labels[j].name => i = j

\* The request was built, so the outcome is that of the normalisation.
IsNormalized == op = "remote_read" /\ ret.raised \in {NoError, "KeyError"}

\* C8 as stated: whatever the labels of a series are (two of them sharing a
\* name included), normalising the response with these labels in any other
\* order gives the same output.
C8_AnyLabelsAnyOrder ==
  IsNormalized
    => \A rt \in SeriesPositions(arg.response) :
         \A p \in LabelOrders(Len(arg.response.results[rt[1]].timeseries[rt[2]].labels)) :
           SameOutcome(NormalizeResponse(PermutedResponse(arg.response, rt[1], rt[2], p)), ret)

\* C8 as amended: for a series whose label names are pairwise distinct,
\* normalising the response with these labels in any other order gives the
\* same output.
C8_DistinctNamesAnyOrder ==
  IsNormalized
    => \A rt \in SeriesPositions(arg.response) :
         DistinctNames(arg.response.results[rt[1]].timeseries[rt[2]].labels)
           => \A p \in LabelOrders(Len(arg.response.results[rt[1]].timeseries[rt[2]].labels)) :
                SameOutcome(NormalizeResponse(PermutedResponse(arg.response, rt[1], rt[2], p)), ret)

\* A response normalised whose second series came with three labels of
\* distinct names out of name order.
C8_Witness ==
  /\ IsNormalized /\ Succeeded
  /\ Len(arg.response.results) = 1
  /\ Len(arg.response.results[1].timeseries) = 2
  /\ arg.response.results[1].timeseries[2].labels
       = <<[name |-> "b", value |-> "1"], [name |-> "a", value |-> "2"], [name |-> "__name__", value |-> "m"]>>
  /\ ret.value.results[1].timeseries[2].labels
       = <<[name |-> "__name__", value |-> "m"], [name |-> "a", value |-> "2"], [name |-> "b", value |-> "1"]>>

(***************************************************************************)
(* C9. The matchers and the order they are written in                      *)
(***************************************************************************)
Reversed(xs) == [i \in 1..Len(xs) |-> xs[Len(xs) + 1 - i]]

\* The outcome for the same query with the entries of its block reversed.
ReversedOutcome ==
  construct_read_request(QueryOf([shape EXCEPT !.entries = Reversed(@)]), arg.current_time_ms).outcome

\* Both calls yield a request, with the same matcher sequence.
SameMatchers(a, b) ==
  /\ a.raised = NoError
  /\ b.raised = NoError
  /\ a.value.queries[1].matchers = b.value.queries[1].matchers

\* C9 as stated: for every query with a matcher block that yields a
\* request, the query with the entries in reverse order yields the same
\* matcher sequence.
C9_ReversalSameMatchers ==
  (IsRead /\ shape.block /\ Succeeded) => SameMatchers(ReversedOutcome, ret)

\* Any two matchers of the request with the same value are the same matcher.
EqualValuesAreSameMatcher(matchers) ==
  \A i, j \in 2..Len(matchers) : matchers[i].value = matchers[j].value => matchers[i] = matchers[j]

\* C9 as amended: the same, for the queries in which no two matchers that
\* differ in name or operator have the same value.
C9_ReversalSameMatchersDistinctValues ==
  (IsRead /\ shape.block /\ Succeeded /\ EqualValuesAreSameMatcher(ret.value.queries[1].matchers))
    => SameMatchers(ReversedOutcome, ret)

\* A request for a block written with the greater value first, which the
\* request holds in the other order.
C9_Witness ==
  /\ IsRead /\ Succeeded
  /\ shape.entries = <<Chars("b!~\"2..\""), Chars("a=\"1\"")>>
  /\ Len(ret.value.queries[1].matchers) = 3
  /\ ret.value.queries[1].matchers[2].name = Chars("a")
  /\ ret.value.queries[1].matchers[3] = [type |-> "NRE", name |-> Chars("b"), value |-> Chars("2..")]

(***************************************************************************)
(* C10. Hint values that must be integers                                  *)
(***************************************************************************)
\* A pair written key=value whose key is start, end, step or range and
\* whose value is not an integer.
HasBadIntegerHint(sh) ==
  \E key \in {"start", "end", "step", "range"} :
    \E i \in HintsWithKey(sh, key) : sh.pairs[i][2] \notin DOMAIN HintIntegers

\* C10: once the hints are reached and a read_hints block is found, the
\* call fails with InvalidHintValue exactly when some start, end, step or
\* range pair has a value that is not an integer (so pairs with other keys
\* never cause it); without a read_hints block it never does.
C10_IntegerHints ==
  (IsRead /\ ret.raised \notin RangeStageErrors)
    => IF HintsGiven(shape)
       THEN HasBadIntegerHint(shape) <=> ret.raised = "InvalidHintValue"
       ELSE ret.raised # "InvalidHintValue"

\* A call that failed on a range hint without a value, written after a func
\* hint whose value is not an integer either.
C10_Witness ==
  /\ IsRead
  /\ shape.pairs = <<<<"func", "rate">>, <<"range", "">>>>
  /\ ret.raised = "InvalidHintValue"

(***************************************************************************)
(* C11. Operators outside the four recognized forms                        *)
(***************************************************************************)
OperatorChars == {"=", "!", "~", "<", ">"}

\* entry is identifier, a token of operator characters that is none of
\* =, !=, =~, !~, then a double-quoted value
IsOtherOperatorMatcher(entry) ==
  \E a \in 1..Len(entry), b \in 1..Len(entry), k \in 1..3 :
    /\ a < b /\ b + k < Len(entry)
    /\ entry[1] \in LabelStart
    /\ \A i \in 1..a : entry[i] \in LabelRest
    /\ \A i \in (a + 1)..(b - 1) : entry[i] \in Whitespace
    /\ \A i \in b..(b + k - 1) : entry[i] \in OperatorChars
    /\ SubSeq(entry, b, b + k - 1) \notin {Chars("!="), Chars("=~"), Chars("!~"), Chars("=")}
    /\ \E c \in (b + k)..(Len(entry) - 1) :
         /\ \A i \in (b + k)..(c - 1) : entry[i] \in Whitespace
         /\ entry[c] = "\""
         /\ entry[Len(entry)] = "\""
         /\ \A i \in (c + 1)..(Len(entry) - 1) : entry[i] # "\""

\* C11: when every non-empty entry of the block is well formed but for its
\* operator, and some entry uses an operator token outside =, !=, =~, !~,
\* construct_read_request fails with UnsupportedOperator.
C11_OtherOperatorUnsupported ==
  (/\ IsRead
   /\ HasMetricName(arg.query_string)
   /\ shape.block
   /\ \A i \in 1..Len(NonBlank(shape.entries)) :
        \/ IsExactMatcher(NonBlank(shape.entries)[i])
        \/ IsOtherOperatorMatcher(NonBlank(shape.entries)[i])
   /\ \E i \in 1..Len(NonBlank(shape.entries)) : IsOtherOperatorMatcher(NonBlank(shape.entries)[i]))
    => ret.raised = "UnsupportedOperator"

\* No call fails with UnsupportedOperator: the entry pattern lets only the
\* four recognized operators through, and every other token is InvalidMatcher.
C11_NeverUnsupportedOperator ==
  IsRead => ret.raised # "UnsupportedOperator"

(***************************************************************************)
(* C12. The order of the label matchers                                    *)
(***************************************************************************)
\* The text before the first '@'.
WrittenMain(q) == IF Find(q, "@", 1) = 0 THEN q ELSE SubSeq(q, 1, Find(q, "@", 1) - 1)

\* The content of the first '{...}' of the main query, from '{' at position b.
BlockFrom(main, b) ==
  IF b = 0 \/ Find(main, "}", b + 1) = 0 THEN <<>>
  ELSE SubSeq(main, b + 1, Find(main, "}", b + 1) - 1)

\* The non-empty entries of the block of the main query, as written.
WrittenEntries(q) == NonBlank(Split(BlockFrom(WrittenMain(q), Find(WrittenMain(q), "{", 1)), ","))

WrittenType == (Chars("=") :> "EQ") @@ (Chars("!=") :> "NEQ") @@ (Chars("=~") :> "RE") @@ (Chars("!~") :> "NRE")

\* The matcher an entry writes: the identifier it starts with, the operator
\* between the identifier and the first quote, the text between the first
\* two quotes (nameLen is the length of the identifier, q1 the first quote).
WrittenMatcherAt(entry, nameLen, q1) ==
  [type |-> WrittenType[Strip(SubSeq(entry, nameLen + 1, q1 - 1))],
   name |-> SubSeq(entry, 1, nameLen),
   value |-> SubSeq(entry, q1 + 1, Find(entry, "\"", q1 + 1) - 1)]

WrittenMatcher(entry) ==
  WrittenMatcherAt(entry,
                   CHOOSE n \in 1..Len(entry) :
                     /\ \A i \in 1..n : entry[i] \in LabelRest
                     /\ n = Len(entry) \/ entry[n + 1] \notin LabelRest,
                   Find(entry, "\"", 1))

\* got is written sorted ascending by value, entries of equal value in the
\* order written.
IsStableSortByValue(got, written) ==
  /\ Len(got) = Len(written)
  /\ \E p \in LabelOrders(Len(written)) :
       /\ \A i \in 1..Len(got) : got[i] = WrittenMatcher(written[p[i]])
       /\ \A i, j \in 1..Len(got) : i < j => ~StrLess(got[j].value, got[i].value)
       /\ \A i, j \in 1..Len(got) : (i < j /\ got[i].value = got[j].value) => p[i] < p[j]

\* C12: in every returned request the matchers after __name__ are the
\* matchers of the block's entries (none added or removed), ascending by
\* value, those of equal value in the order written.
C12_SortedByValueStable ==
  (IsRead /\ Succeeded)
    => IsStableSortByValue(Tail(ret.value.queries[1].matchers), WrittenEntries(arg.query_string))

\* A request for two entries of equal value written b before a, which come
\* in that order.
C12_Witness ==
  /\ IsRead /\ Succeeded
  /\ shape.entries = <<Chars("b=\"1\""), Chars("a=\"1\"")>>
  /\ Len(ret.value.queries[1].matchers) = 3
  /\ ret.value.queries[1].matchers[2].name = Chars("b")
  /\ ret.value.queries[1].matchers[3].name = Chars("a")

(***************************************************************************)
(* C13. No label matcher is lost                                           *)
(***************************************************************************)
IsMetricIdentifier(m) ==
  /\ m # <<>>
  /\ m[1] \in MetricStart
  /\ \A i \in 1..Len(m) : m[i] \in MetricRest

\* r is one '[...]' block
IsRangeBlock(r) ==
  /\ Len(r) >= 2
  /\ r[1] = "[" /\ r[Len(r)] = "]"
  /\ \A i \in 2..(Len(r) - 1) : r[i] \notin {"[", "]"}

\* The query is a metric name, a block of k >= 1 well-formed entries, and
\* optionally a range block and an '@' hints part.
IsWellFormedQuery(sh) ==
  /\ IsMetricIdentifier(sh.metric)
  /\ sh.block
  /\ Len(sh.entries) >= 1
  /\ \A i \in 1..Len(sh.entries) : IsExactMatcher(sh.entries[i])
  /\ sh.range = <<>> \/ IsRangeBlock(sh.range)

\* C13: for a query made of a metric name, a block of k >= 1 well-formed
\* entries (whatever characters other than '"' their values hold) and
\* optionally a range block and a hints part, a returned request has exactly
\* k label matchers after __name__.
C13_NoMatcherLost ==
  (IsRead /\ IsWellFormedQuery(shape) /\ Succeeded)
    => Len(ret.value.queries[1].matchers) = 1 + Len(shape.entries)

\* The same holds of the queries whose block has no '@' in it.
C13_NoMatcherLostWithoutAt ==
  (/\ IsRead /\ IsWellFormedQuery(shape) /\ Succeeded
   /\ \A i \in 1..Len(shape.entries) : Find(shape.entries[i], "@", 1) = 0)
    => Len(ret.value.queries[1].matchers) = 1 + Len(shape.entries)

====
